---- MODULE Spec2Model ----
(***************************************************************************)
(* The OS integrity measurement verifier (libimcv/plugins/imv_os/imv_os.c) *)
(* as a state machine: the process-wide verifier handle, one connection's  *)
(* session record, and the IF-IMV entry points that act on them.           *)
(***************************************************************************)
EXTENDS Integers, Sequences, FiniteSets, TLC

(***************************************************************************)
(* Bounds of the model                                                     *)
(***************************************************************************)
\* longest PA-TNC message (number of attributes) the peer sends
MaxAttrs == 2
\* largest number of angel helpers started and not yet stopped
MaxAngel == 1
\* largest number of packages counted for one session
MaxCount == 1
\* largest number of assessments followed on one connection
MaxVerdicts == 2

(***************************************************************************)
(* Vocabulary                                                              *)
(***************************************************************************)
TNC_IFIMV_VERSION_1 == 1

IMV_OS_ATTR_PRODUCT_INFORMATION == "PRODUCT_INFORMATION"
IMV_OS_ATTR_STRING_VERSION == "STRING_VERSION"
IMV_OS_ATTR_NUMERIC_VERSION == "NUMERIC_VERSION"
IMV_OS_ATTR_OPERATIONAL_STATUS == "OPERATIONAL_STATUS"
IMV_OS_ATTR_FORWARDING_ENABLED == "FORWARDING_ENABLED"
IMV_OS_ATTR_FACTORY_DEFAULT_PWD_ENABLED == "FACTORY_DEFAULT_PWD_ENABLED"
IMV_OS_ATTR_DEVICE_ID == "DEVICE_ID"
IMV_OS_ATTR_ALL ==
    { IMV_OS_ATTR_PRODUCT_INFORMATION, IMV_OS_ATTR_STRING_VERSION,
      IMV_OS_ATTR_NUMERIC_VERSION, IMV_OS_ATTR_OPERATIONAL_STATUS,
      IMV_OS_ATTR_FORWARDING_ENABLED, IMV_OS_ATTR_FACTORY_DEFAULT_PWD_ENABLED,
      IMV_OS_ATTR_DEVICE_ID }

\* the handshake states of a session, in the order of the enumeration
HandshakeStates == << "INIT", "ATTR_REQ", "POLICY_START" >>
IMV_OS_STATE_INIT == HandshakeStates[1]
IMV_OS_STATE_ATTR_REQ == HandshakeStates[2]
IMV_OS_STATE_POLICY_START == HandshakeStates[3]
HandshakeOrd(h) == CHOOSE i \in 1..Len(HandshakeStates) : HandshakeStates[i] = h

\* recommendations: << action recommendation, evaluation result >>
RecNone == << "NO_RECOMMENDATION", "DONT_KNOW" >>
RecError == << "NO_RECOMMENDATION", "ERROR" >>
RecIsolate == << "ISOLATE", "NONCOMPLIANT_MINOR" >>
RecAllow == << "ALLOW", "COMPLIANT" >>

\* a PA-TNC attribute: vendor, type, a scalar payload and a name/value list
Attr(vid, type, val, kv) == [vid |-> vid, type |-> type, val |-> val, kv |-> kv]

non_market_apps_str == "install_non_market_apps"

PEN_IETF == "PEN_IETF"
PEN_ITA == "PEN_ITA"

(***************************************************************************)
(* State                                                                   *)
(***************************************************************************)
VARIABLES
    imv_os,     \* the verifier handle exists (static imv_os != NULL)
    imv_db,     \* the verifier's agent has an IMV database
    os_db,      \* the OS database is attached (static os_db != NULL)
    connected,  \* the agent holds a state for the connection
    os_state,   \* the connection's session record
    op,         \* the last entry point called
    calls,      \* what the last entry point called, in order: the policy
                \* script, add_product, set_device_info, set_recommendation,
                \* the sends and provide_recommendation
    sent,       \* the attribute requests sent by the last entry point, in order
    result,     \* TNC_Result of the last entry point
    verdicts,   \* assessments delivered for the connection so far
    feature_a,  \* plugin_feature_matches: the feature a, asked for
    feature_b,  \* plugin_feature_matches: the feature b, provided
    matches     \* plugin_feature_matches: the value returned

vars == << imv_os, imv_db, os_db, connected, os_state, op, calls, sent,
           result, verdicts, feature_a, feature_b, matches >>

\* what plugin_feature_matches works on; the verifier does not touch it
matching == << feature_a, feature_b, matches >>

\* a freshly created session record
imv_os_state_create ==
    [ handshake_state |-> IMV_OS_STATE_INIT,
      received |-> {},
      os_settings |-> {},
      info |-> << >>,
      device_id |-> "",
      angel_count |-> 0,
      count |-> 0,
      count_update |-> 0,
      count_blacklist |-> 0,
      count_ok |-> 0,
      rec |-> RecNone ]

(***************************************************************************)
(* Accessors of the session record                                         *)
(***************************************************************************)
set_received(st, flag) == [st EXCEPT !.received = @ \cup {flag}]

set_os_settings(st, flag) == [st EXCEPT !.os_settings = @ \cup {flag}]

set_handshake_state(st, h) == [st EXCEPT !.handshake_state = h]

set_info(st, name, version) == [st EXCEPT !.info = << name, version >>]

set_device_id(st, id) == [st EXCEPT !.device_id = id]

set_angel_count(st, start) ==
    [st EXCEPT !.angel_count =
        IF start THEN @ + 1 ELSE IF @ > 0 THEN @ - 1 ELSE @]

set_recommendation(st, rec) == [st EXCEPT !.rec = rec]

\* the package database classifies the packages of one inventory and adds
\* them to the session's counters, or fails
check_packages(st, class) ==
    IF class = "FAILED"
    THEN [status |-> "FAILED", st |-> st]
    ELSE [status |-> "SUCCESS",
          st |-> [st EXCEPT
                    !.count = @ + 1,
                    !.count_update = @ + (IF class = "update" THEN 1 ELSE 0),
                    !.count_blacklist = @ + (IF class = "blacklist" THEN 1 ELSE 0),
                    !.count_ok = @ + (IF class = "ok" THEN 1 ELSE 0)]]

(***************************************************************************)
(* receive_message: the attribute loop                                     *)
(***************************************************************************)
\* the locals of receive_message before the first attribute is analyzed
Frame(st) ==
    [ st |-> st, os_name |-> "", os_version |-> "", assessment |-> FALSE,
      calls |-> << >> ]

\* NonMarketApps for every value of the setting
NonMarketApps_AnyValue(name, value) ==
    name = non_market_apps_str

\* the setting that allows the installation of non-market apps is switched on
NonMarketApps(name, value) ==
    name = non_market_apps_str /\ value = "1"

\* the settings loop: one name/value pair after the other
RECURSIVE SettingsLoop(_, _)
SettingsLoop(st, kv) ==
    IF kv = << >> THEN st
    ELSE LET name == Head(kv)[1]
             value == Head(kv)[2]
             st1 == IF NonMarketApps(name, value)
                    THEN set_os_settings(st, "OS_SETTINGS_NON_MARKET_APPS")
                    ELSE st
         IN SettingsLoop(st1, Tail(kv))

\* PackagesChecked that leaves the assessment to the gate
PackagesChecked_NoAssessment(f, chk) ==
    IF chk.status = "FAILED"
    THEN [f EXCEPT !.st = set_recommendation(chk.st, RecError),
                   !.calls = Append(@, "set_recommendation")]
    ELSE [f EXCEPT !.st = chk.st]

\* what follows check_packages: its failure forces the error result
PackagesChecked(f, chk) ==
    IF chk.status = "FAILED"
    THEN [f EXCEPT !.st = set_recommendation(chk.st, RecError),
                   !.calls = Append(@, "set_recommendation"),
                   !.assessment = TRUE]
    ELSE [f EXCEPT !.st = chk.st]

\* the body of the attribute loop for an attribute of vendor PEN_IETF
AnalyzeIetf(f, attr, has_os_db) ==
    CASE attr.type = "IETF_ATTR_PRODUCT_INFORMATION" ->
            [f EXCEPT !.st = set_received(@, IMV_OS_ATTR_PRODUCT_INFORMATION),
                      !.os_name = attr.val]
      [] attr.type = "IETF_ATTR_STRING_VERSION" ->
            [f EXCEPT !.st = set_received(@, IMV_OS_ATTR_STRING_VERSION),
                      !.os_version = attr.val]
      [] attr.type = "IETF_ATTR_NUMERIC_VERSION" ->
            [f EXCEPT !.st = set_received(@, IMV_OS_ATTR_NUMERIC_VERSION)]
      [] attr.type = "IETF_ATTR_OPERATIONAL_STATUS" ->
            [f EXCEPT !.st = set_received(@, IMV_OS_ATTR_OPERATIONAL_STATUS)]
      [] attr.type = "IETF_ATTR_FORWARDING_ENABLED" ->
            LET st1 == set_received(f.st, IMV_OS_ATTR_FORWARDING_ENABLED)
            IN [f EXCEPT !.st = IF attr.val = "OS_FWD_ENABLED"
                                THEN set_os_settings(st1, "OS_SETTINGS_FWD_ENABLED")
                                ELSE st1]
      [] attr.type = "IETF_ATTR_FACTORY_DEFAULT_PWD_ENABLED" ->
            LET st1 == set_received(f.st, IMV_OS_ATTR_FACTORY_DEFAULT_PWD_ENABLED)
            IN [f EXCEPT !.st = IF attr.val = "TRUE"
                                THEN set_os_settings(st1, "OS_SETTINGS_DEFAULT_PWD_ENABLED")
                                ELSE st1]
      [] attr.type = "IETF_ATTR_INSTALLED_PACKAGES" ->
            IF ~has_os_db THEN f
            ELSE PackagesChecked(f, check_packages(f.st, attr.val))
      [] OTHER -> f

\* AnalyzeIta with the start and the stop of an angel taken for each other
AnalyzeIta_AngelSwapped(f, attr, has_imv_db) ==
    CASE attr.type = "ITA_ATTR_SETTINGS" ->
            [f EXCEPT !.st = SettingsLoop(@, attr.kv)]
      [] attr.type = "ITA_ATTR_DEVICE_ID" ->
            LET st1 == set_received(f.st, IMV_OS_ATTR_DEVICE_ID)
            IN IF has_imv_db
               THEN [f EXCEPT !.st = set_device_id(st1, attr.val)]
               ELSE [f EXCEPT !.st = st1]
      [] attr.type = "ITA_ATTR_START_ANGEL" ->
            [f EXCEPT !.st = set_angel_count(@, FALSE)]
      [] attr.type = "ITA_ATTR_STOP_ANGEL" ->
            [f EXCEPT !.st = set_angel_count(@, TRUE)]
      [] OTHER -> f

\* the body of the attribute loop for an attribute of vendor PEN_ITA
AnalyzeIta(f, attr, has_imv_db) ==
    CASE attr.type = "ITA_ATTR_SETTINGS" ->
            [f EXCEPT !.st = SettingsLoop(@, attr.kv)]
      [] attr.type = "ITA_ATTR_DEVICE_ID" ->
            LET st1 == set_received(f.st, IMV_OS_ATTR_DEVICE_ID)
            IN IF has_imv_db
               THEN [f EXCEPT !.st = set_device_id(st1, attr.val)]
               ELSE [f EXCEPT !.st = st1]
      [] attr.type = "ITA_ATTR_START_ANGEL" ->
            [f EXCEPT !.st = set_angel_count(@, TRUE)]
      [] attr.type = "ITA_ATTR_STOP_ANGEL" ->
            [f EXCEPT !.st = set_angel_count(@, FALSE)]
      [] OTHER -> f

\* AnalyzeAttr that takes every vendor but PEN_ITA for PEN_IETF
AnalyzeAttr_AnyVendor(f, attr, has_imv_db, has_os_db) ==
    IF attr.vid = PEN_ITA THEN AnalyzeIta(f, attr, has_imv_db)
    ELSE AnalyzeIetf(f, attr, has_os_db)

\* one round of the attribute loop
AnalyzeAttr(f, attr, has_imv_db, has_os_db) ==
    IF attr.vid = PEN_IETF THEN AnalyzeIetf(f, attr, has_os_db)
    ELSE IF attr.vid = PEN_ITA THEN AnalyzeIta(f, attr, has_imv_db)
    ELSE f

\* the attribute loop over the attributes of the message, in order
RECURSIVE AnalyzeAttrs(_, _, _, _)
AnalyzeAttrs(f, attrs, has_imv_db, has_os_db) ==
    IF attrs = << >> THEN f
    ELSE AnalyzeAttrs(AnalyzeAttr(f, Head(attrs), has_imv_db, has_os_db),
                      Tail(attrs), has_imv_db, has_os_db)

(***************************************************************************)
(* receive_message: after the attribute loop                               *)
(***************************************************************************)
\* SetOsInfo taking the name without the version
SetOsInfo_NameOnly(f, has_imv_db) ==
    IF f.os_name # ""
    THEN [f EXCEPT !.st = set_info(@, f.os_name, f.os_version),
                   !.calls = IF has_imv_db THEN Append(@, "add_product") ELSE @]
    ELSE f

\* Product Information and String Version of the same message make the
\* operating system's identity
SetOsInfo(f, has_imv_db) ==
    IF f.os_name # "" /\ f.os_version # ""
    THEN [f EXCEPT !.st = set_info(@, f.os_name, f.os_version),
                   !.calls = IF has_imv_db THEN Append(@, "add_product") ELSE @]
    ELSE f

\* HandleFatalError that leaves the assessment to the gate
HandleFatalError_NoAssessment(f, fatal_error) ==
    IF fatal_error
    THEN [f EXCEPT !.st = set_recommendation(@, RecError),
                   !.calls = Append(@, "set_recommendation")]
    ELSE f

\* a fatal error found while parsing the message forces the error result
HandleFatalError(f, fatal_error) ==
    IF fatal_error
    THEN [f EXCEPT !.st = set_recommendation(@, RecError),
                   !.calls = Append(@, "set_recommendation"),
                   !.assessment = TRUE]
    ELSE f

\* Recommend without the OS settings
Recommend_NoSettings(count_update, count_blacklist, os_settings) ==
    IF count_update # 0 \/ count_blacklist # 0
    THEN RecIsolate
    ELSE RecAllow

\* the recommendation the package counters and the OS settings lead to
Recommend(count_update, count_blacklist, os_settings) ==
    IF count_update # 0 \/ count_blacklist # 0 \/ os_settings # {}
    THEN RecIsolate
    ELSE RecAllow

\* AssessmentDue without the test for running angels
AssessmentDue_AngelsRunning(f) ==
    /\ ~f.assessment
    /\ f.st.handshake_state = IMV_OS_STATE_POLICY_START

\* the condition under which receive_message goes to the assessment
AssessmentDue(f) ==
    /\ ~f.assessment
    /\ f.st.handshake_state = IMV_OS_STATE_POLICY_START
    /\ f.st.angel_count = 0

\* the assessment: the device information is stored and the recommendation set
Assess(f, has_os_db) ==
    IF AssessmentDue(f)
    THEN [f EXCEPT
            !.st = set_recommendation(@,
                       Recommend(f.st.count_update, f.st.count_blacklist,
                                 f.st.os_settings)),
            !.calls = (IF has_os_db THEN Append(@, "set_device_info") ELSE @)
                          \o << "set_recommendation" >>,
            !.assessment = TRUE]
    ELSE f

\* Deliver that provides the recommendation whatever send_assessment returns
Deliver_ProvideAlways(f, fail) ==
    IF f.assessment
    THEN [st |-> f.st,
          calls |-> f.calls \o << "send_assessment", "provide_recommendation" >>,
          result |-> IF fail = "send" THEN "FATAL" ELSE "SUCCESS"]
    ELSE [st |-> f.st, calls |-> Append(f.calls, "send_excl"),
          result |-> IF fail = "send" THEN "FATAL" ELSE "SUCCESS"]

\* the end of receive_message: the assessment or the reply is sent
Deliver(f, fail) ==
    IF f.assessment
    THEN IF fail = "send"
         THEN [st |-> f.st, calls |-> Append(f.calls, "send_assessment"),
               result |-> "FATAL"]
         ELSE [st |-> f.st,
               calls |-> f.calls \o << "send_assessment", "provide_recommendation" >>,
               result |-> "SUCCESS"]
    ELSE [st |-> f.st, calls |-> Append(f.calls, "send_excl"),
          result |-> IF fail = "send" THEN "FATAL" ELSE "SUCCESS"]

\* in_msg: [attrs, fatal_error, fail], where fail tells whether the message
\* channel fails to parse the message ("receive") or to send what the
\* handler sends, the assessment or the reply ("send")
receive_message(st, in_msg, has_imv_db, has_os_db) ==
    IF in_msg.fail = "receive"
    THEN [st |-> st, calls |-> << >>, result |-> "FATAL"]
    ELSE LET f1 == AnalyzeAttrs(Frame(st), in_msg.attrs, has_imv_db, has_os_db)
             f2 == SetOsInfo(f1, has_imv_db)
             f3 == HandleFatalError(f2, in_msg.fatal_error)
             f4 == Assess(f3, has_os_db)
         IN Deliver(f4, in_msg.fail)

(***************************************************************************)
(* build_attr_request                                                      *)
(***************************************************************************)
\* ReqIf that asks for attributes of vendor PEN_IETF only
ReqIf_IetfOnly(cond, vid, type) ==
    IF cond /\ vid = PEN_IETF THEN << << vid, type >> >> ELSE << >>

ReqIf(cond, vid, type) == IF cond THEN << << vid, type >> >> ELSE << >>

\* build_attr_request asking for the identity only if both parts are missing
build_attr_request_BothMissing(received) ==
    (IF IMV_OS_ATTR_PRODUCT_INFORMATION \notin received /\
        IMV_OS_ATTR_STRING_VERSION \notin received
     THEN << << PEN_IETF, "IETF_ATTR_PRODUCT_INFORMATION" >>,
             << PEN_IETF, "IETF_ATTR_STRING_VERSION" >> >>
     ELSE << >>)
    \o ReqIf(IMV_OS_ATTR_NUMERIC_VERSION \notin received,
             PEN_IETF, "IETF_ATTR_NUMERIC_VERSION")
    \o ReqIf(IMV_OS_ATTR_OPERATIONAL_STATUS \notin received,
             PEN_IETF, "IETF_ATTR_OPERATIONAL_STATUS")
    \o ReqIf(IMV_OS_ATTR_FORWARDING_ENABLED \notin received,
             PEN_IETF, "IETF_ATTR_FORWARDING_ENABLED")
    \o ReqIf(IMV_OS_ATTR_FACTORY_DEFAULT_PWD_ENABLED \notin received,
             PEN_IETF, "IETF_ATTR_FACTORY_DEFAULT_PWD_ENABLED")
    \o ReqIf(IMV_OS_ATTR_DEVICE_ID \notin received,
             PEN_ITA, "ITA_ATTR_DEVICE_ID")

build_attr_request(received) ==
    (IF IMV_OS_ATTR_PRODUCT_INFORMATION \notin received \/
        IMV_OS_ATTR_STRING_VERSION \notin received
     THEN << << PEN_IETF, "IETF_ATTR_PRODUCT_INFORMATION" >>,
             << PEN_IETF, "IETF_ATTR_STRING_VERSION" >> >>
     ELSE << >>)
    \o ReqIf(IMV_OS_ATTR_NUMERIC_VERSION \notin received,
             PEN_IETF, "IETF_ATTR_NUMERIC_VERSION")
    \o ReqIf(IMV_OS_ATTR_OPERATIONAL_STATUS \notin received,
             PEN_IETF, "IETF_ATTR_OPERATIONAL_STATUS")
    \o ReqIf(IMV_OS_ATTR_FORWARDING_ENABLED \notin received,
             PEN_IETF, "IETF_ATTR_FORWARDING_ENABLED")
    \o ReqIf(IMV_OS_ATTR_FACTORY_DEFAULT_PWD_ENABLED \notin received,
             PEN_IETF, "IETF_ATTR_FACTORY_DEFAULT_PWD_ENABLED")
    \o ReqIf(IMV_OS_ATTR_DEVICE_ID \notin received,
             PEN_ITA, "ITA_ATTR_DEVICE_ID")

(***************************************************************************)
(* TNC_IMV_BatchEnding, for a connection that has a state                  *)
(***************************************************************************)
\* a PA-TNC message carrying one attribute request
OutMsg(excl, request) == [excl |-> excl, request |-> request]

\* RequestMissing until the policy starts
RequestMissing_BeforePolicyStart(handshake_state, received) ==
    handshake_state # IMV_OS_STATE_POLICY_START /\ received # IMV_OS_ATTR_ALL

\* RequestMissing in every handshake state
RequestMissing_AnyState(handshake_state, received) ==
    received # IMV_OS_ATTR_ALL

\* the request for the missing attributes, sent in state INIT
RequestMissing(handshake_state, received) ==
    handshake_state = IMV_OS_STATE_INIT /\ received # IMV_OS_ATTR_ALL

\* PolicyCanStart that waits for the device ID in every handshake state
PolicyCanStart_DeviceRequired(handshake_state, received) ==
    /\ IMV_OS_ATTR_PRODUCT_INFORMATION \in received
    /\ IMV_OS_ATTR_STRING_VERSION \in received
    /\ IMV_OS_ATTR_DEVICE_ID \in received

\* PolicyCanStart without the test for the String Version
PolicyCanStart_NoVersion(handshake_state, received) ==
    /\ IMV_OS_ATTR_PRODUCT_INFORMATION \in received
    /\ \/ IMV_OS_ATTR_DEVICE_ID \in received
       \/ handshake_state = IMV_OS_STATE_ATTR_REQ

\* the condition under which the policy manager is triggered
PolicyCanStart(handshake_state, received) ==
    /\ IMV_OS_ATTR_PRODUCT_INFORMATION \in received
    /\ IMV_OS_ATTR_STRING_VERSION \in received
    /\ \/ IMV_OS_ATTR_DEVICE_ID \in received
       \/ handshake_state = IMV_OS_STATE_ATTR_REQ

\* BeforePolicyStart with POLICY_START included
BeforePolicyStart_Inclusive(handshake_state) ==
    HandshakeOrd(handshake_state) <= HandshakeOrd(IMV_OS_STATE_POLICY_START)

\* the handshake states in which the policy has not started yet
BeforePolicyStart(handshake_state) ==
    HandshakeOrd(handshake_state) < HandshakeOrd(IMV_OS_STATE_POLICY_START)

\* fail names the call of the message channel that fails, if any
batch_ending(st, has_imv_db, fail) ==
    LET handshake_state == st.handshake_state
        received == st.received
        asked == RequestMissing(handshake_state, received)
        calls1 == IF asked THEN << "send" >> ELSE << >>
        sent1 == IF asked
                 THEN << OutMsg(FALSE, build_attr_request(received)) >>
                 ELSE << >>
    IN IF asked /\ fail = "send"
       THEN [st |-> st, calls |-> calls1, sent |-> sent1, result |-> "FATAL"]
       ELSE IF BeforePolicyStart(handshake_state)
       THEN IF PolicyCanStart(handshake_state, received)
            THEN [st |-> set_handshake_state(st, IMV_OS_STATE_POLICY_START),
                  calls |-> calls1
                            \o (IF has_imv_db THEN << "policy_script_start" >>
                                ELSE << >>)
                            \o << "send_excl" >>,
                  sent |-> Append(sent1,
                              OutMsg(TRUE, << << PEN_IETF,
                                              "IETF_ATTR_INSTALLED_PACKAGES" >> >>)),
                  result |-> IF fail = "send_excl" THEN "FATAL" ELSE "SUCCESS"]
            ELSE IF handshake_state = IMV_OS_STATE_ATTR_REQ
            THEN IF fail = "send_assessment"
                 THEN [st |-> set_recommendation(st, RecError),
                       calls |-> calls1 \o << "set_recommendation", "send_assessment" >>,
                       sent |-> sent1, result |-> "FATAL"]
                 ELSE [st |-> set_recommendation(st, RecError),
                       calls |-> calls1 \o << "set_recommendation", "send_assessment",
                                              "provide_recommendation" >>,
                       sent |-> sent1, result |-> "SUCCESS"]
            ELSE [st |-> set_handshake_state(st, IMV_OS_STATE_ATTR_REQ),
                  calls |-> calls1, sent |-> sent1, result |-> "SUCCESS"]
       ELSE [st |-> st, calls |-> calls1, sent |-> sent1, result |-> "SUCCESS"]

(***************************************************************************)
(* What the peer and the environment may supply                            *)
(***************************************************************************)
ProductInfo(name) == Attr(PEN_IETF, "IETF_ATTR_PRODUCT_INFORMATION", name, << >>)
StringVersion(version) == Attr(PEN_IETF, "IETF_ATTR_STRING_VERSION", version, << >>)
NumericVersion == Attr(PEN_IETF, "IETF_ATTR_NUMERIC_VERSION", "", << >>)
OperationalStatus == Attr(PEN_IETF, "IETF_ATTR_OPERATIONAL_STATUS", "", << >>)
ForwardingEnabled(status) == Attr(PEN_IETF, "IETF_ATTR_FORWARDING_ENABLED", status, << >>)
DefaultPwdEnabled(status) ==
    Attr(PEN_IETF, "IETF_ATTR_FACTORY_DEFAULT_PWD_ENABLED", status, << >>)
InstalledPackages(class) == Attr(PEN_IETF, "IETF_ATTR_INSTALLED_PACKAGES", class, << >>)
Settings(kv) == Attr(PEN_ITA, "ITA_ATTR_SETTINGS", "", kv)
DeviceId(value) == Attr(PEN_ITA, "ITA_ATTR_DEVICE_ID", value, << >>)
StartAngel == Attr(PEN_ITA, "ITA_ATTR_START_ANGEL", "", << >>)
StopAngel == Attr(PEN_ITA, "ITA_ATTR_STOP_ANGEL", "", << >>)

\* attributes the verifier does not know: an unknown type of either vendor,
\* and a known type number under another vendor
UnknownAttrs ==
    { Attr(PEN_IETF, "IETF_ATTR_REMEDIATION_INSTRUCTIONS", "x", << >>),
      Attr(PEN_ITA, "ITA_ATTR_GET_SETTINGS", "x", << >>),
      Attr("PEN_TCG", "IETF_ATTR_PRODUCT_INFORMATION", "Linux", << >>) }

\* all sequences over S of length at most n
RECURSIVE SeqsUpTo(_, _)
SeqsUpTo(S, n) ==
    IF n = 0 THEN { << >> }
    ELSE LET shorter == SeqsUpTo(S, n - 1)
         IN shorter \cup { Append(q, x) : q \in shorter, x \in S }

InMsg(attrs, fatal_error, fail) ==
    [attrs |-> attrs, fatal_error |-> fatal_error, fail |-> fail]

\* messages over the attributes A: every message of up to MaxAttrs
\* attributes parsed without error, every message of at most one attribute
\* with each outcome of the message channel, and a message that is not parsed
InMsgs(A) ==
    { InMsg(attrs, FALSE, "none") : attrs \in SeqsUpTo(A, MaxAttrs) }
    \cup { InMsg(attrs, fatal_error, fail) :
             attrs \in SeqsUpTo(A, 1), fatal_error \in BOOLEAN,
             fail \in {"none", "send"} }
    \cup { InMsg(<< >>, FALSE, "receive") }

(***************************************************************************)
(* plugin_feature_matches                                                  *)
(***************************************************************************)
\* the feature types, in the order of their names
plugin_feature_names ==
    << "FEATURE_NONE", "FEATURE_CRYPTER", "FEATURE_AEAD", "FEATURE_SIGNER",
       "FEATURE_HASHER", "FEATURE_PRF", "FEATURE_DH", "FEATURE_RNG",
       "FEATURE_PRIVKEY", "FEATURE_PRIVKEY_GEN", "FEATURE_PRIVKEY_SIGN",
       "FEATURE_PRIVKEY_DECRYPT", "FEATURE_PUBKEY", "FEATURE_PUBKEY_VERIFY",
       "FEATURE_PUBKEY_ENCRYPT", "FEATURE_CERT_DECODE", "FEATURE_CERT_ENCODE",
       "FEATURE_EAP_SERVER", "FEATURE_EAP_PEER", "FEATURE_DATABASE",
       "FEATURE_FETCHER", "FEATURE_CUSTOM" >>

\* a feature: its type and the member of arg that belongs to the type
Feature(type, arg) == [type |-> type, arg |-> arg]

DB_ANY == "DB_ANY"

\* the null pointer, for a fetcher without URL scheme
NULL == "(null)"

\* strings are equal
streq(x, y) == x = y

\* plugin_feature_matches with the qualities of an RNG compared the other
\* way round
plugin_feature_matches_RngReversed(a, b) ==
    IF a.type = b.type
    THEN CASE a.type = "FEATURE_NONE" -> FALSE
           [] a.type \in { "FEATURE_CRYPTER", "FEATURE_AEAD" } ->
                 a.arg.alg = b.arg.alg /\ a.arg.key_size = b.arg.key_size
           [] a.type = "FEATURE_RNG" -> a.arg >= b.arg
           [] a.type = "FEATURE_DATABASE" -> a.arg = DB_ANY \/ a.arg = b.arg
           [] a.type = "FEATURE_FETCHER" -> a.arg = NULL \/ streq(a.arg, b.arg)
           [] a.type = "FEATURE_CUSTOM" -> streq(a.arg, b.arg)
           [] a.type \in { "FEATURE_SIGNER", "FEATURE_HASHER", "FEATURE_PRF",
                           "FEATURE_DH", "FEATURE_PRIVKEY", "FEATURE_PRIVKEY_GEN",
                           "FEATURE_PUBKEY", "FEATURE_PRIVKEY_SIGN",
                           "FEATURE_PUBKEY_VERIFY", "FEATURE_PRIVKEY_DECRYPT",
                           "FEATURE_PUBKEY_ENCRYPT", "FEATURE_CERT_DECODE",
                           "FEATURE_CERT_ENCODE", "FEATURE_EAP_SERVER",
                           "FEATURE_EAP_PEER" } -> a.arg = b.arg
           [] OTHER -> FALSE
    ELSE FALSE

\* the feature a, asked for, is met by the feature b, provided
plugin_feature_matches(a, b) ==
    IF a.type = b.type
    THEN CASE a.type = "FEATURE_NONE" -> FALSE
           [] a.type \in { "FEATURE_CRYPTER", "FEATURE_AEAD" } ->
                 a.arg.alg = b.arg.alg /\ a.arg.key_size = b.arg.key_size
           [] a.type = "FEATURE_RNG" -> a.arg <= b.arg
           [] a.type = "FEATURE_DATABASE" -> a.arg = DB_ANY \/ a.arg = b.arg
           [] a.type = "FEATURE_FETCHER" -> a.arg = NULL \/ streq(a.arg, b.arg)
           [] a.type = "FEATURE_CUSTOM" -> streq(a.arg, b.arg)
           [] a.type \in { "FEATURE_SIGNER", "FEATURE_HASHER", "FEATURE_PRF",
                           "FEATURE_DH", "FEATURE_PRIVKEY", "FEATURE_PRIVKEY_GEN",
                           "FEATURE_PUBKEY", "FEATURE_PRIVKEY_SIGN",
                           "FEATURE_PUBKEY_VERIFY", "FEATURE_PRIVKEY_DECRYPT",
                           "FEATURE_PUBKEY_ENCRYPT", "FEATURE_CERT_DECODE",
                           "FEATURE_CERT_ENCODE", "FEATURE_EAP_SERVER",
                           "FEATURE_EAP_PEER" } -> a.arg = b.arg
           [] OTHER -> FALSE
    ELSE FALSE

\* the values of arg for a feature type: two algorithms with two key sizes,
\* three qualities of an RNG, the databases, the URL schemes and no scheme,
\* and two values of every other member
FeatureArgs(type) ==
    CASE type = "FEATURE_NONE" -> { 0 }
      [] type \in { "FEATURE_CRYPTER", "FEATURE_AEAD" } ->
            [alg : { "ENCR_3DES", "ENCR_AES_CBC" }, key_size : { 0, 16 }]
      [] type = "FEATURE_RNG" -> { 0, 1, 2 }
      [] type = "FEATURE_DATABASE" -> { DB_ANY, "DB_SQLITE", "DB_MYSQL" }
      [] type = "FEATURE_FETCHER" -> { NULL, "file://", "http://" }
      [] type = "FEATURE_CUSTOM" -> { "xauth", "kernel-ipsec" }
      [] OTHER -> { 1, 2 }

Features ==
    UNION { { Feature(plugin_feature_names[i], arg) :
                arg \in FeatureArgs(plugin_feature_names[i]) } :
            i \in DOMAIN plugin_feature_names }

\* no features are compared
NoMatching ==
    /\ feature_a = Feature("FEATURE_NONE", 0)
    /\ feature_b = Feature("FEATURE_NONE", 0)
    /\ matches = FALSE

(***************************************************************************)
(* The entry points                                                        *)
(***************************************************************************)
Init ==
    /\ imv_os = FALSE
    /\ imv_db = FALSE
    /\ os_db = FALSE
    /\ connected = FALSE
    /\ os_state = imv_os_state_create
    /\ op = ""
    /\ calls = << >>
    /\ sent = << >>
    /\ result = "SUCCESS"
    /\ verdicts = 0
    /\ NoMatching

\* an entry point that returns before it touches the connection
Rejected(name, res) ==
    /\ op' = name
    /\ result' = res
    /\ calls' = << >>
    /\ sent' = << >>
    /\ UNCHANGED << imv_os, imv_db, os_db, connected, os_state, verdicts >>
    /\ UNCHANGED matching

\* the calls make a delivered assessment
IsVerdict(cs) ==
    \E i \in 1..(Len(cs) - 1) :
        cs[i] = "send_assessment" /\ cs[i + 1] = "provide_recommendation"

\* the state of a connection is destroyed with it
NoConnection ==
    /\ connected' = FALSE
    /\ os_state' = imv_os_state_create
    /\ verdicts' = 0

\* every entry point but TNC_IMV_Initialize, called before TNC_IMV_Initialize
NotInitialized ==
    /\ ~imv_os
    /\ \E name \in { "NotifyConnectionChange", "ReceiveMessage",
                     "SolicitRecommendation", "BatchEnding", "Terminate" } :
          Rejected(name, "NOT_INITIALIZED")

\* the entry points that look up the connection's state and find none
NoState ==
    /\ imv_os /\ ~connected
    /\ \E name \in { "ReceiveMessage", "SolicitRecommendation", "BatchEnding" } :
          Rejected(name, "FATAL")

\* TNC_IMV_Initialize called again
AlreadyInitialized ==
    /\ imv_os
    /\ Rejected("Initialize", "ALREADY_INITIALIZED")

TNC_IMV_Initialize ==
    /\ ~imv_os
    /\ \E agent_ok \in BOOLEAN :
         IF ~agent_ok THEN Rejected("Initialize", "FATAL")
         ELSE \E min_version \in {1, 2}, max_version \in {0, 1},
                 has_db \in BOOLEAN :
              /\ imv_os' = TRUE
              /\ imv_db' = has_db
              /\ op' = "Initialize"
              /\ calls' = << >>
              /\ sent' = << >>
              /\ UNCHANGED << connected, os_state, verdicts >>
              /\ UNCHANGED matching
              /\ IF min_version > TNC_IFIMV_VERSION_1 \/
                    max_version < TNC_IFIMV_VERSION_1
                 THEN /\ result' = "NO_COMMON_VERSION"
                      /\ UNCHANGED os_db
                 ELSE /\ result' = "SUCCESS"
                      /\ os_db' = has_db

\* PolicyScriptStop without the lookup of the connection's state
PolicyScriptStop_AnyConnection(has_imv_db, has_state) ==
    IF has_imv_db THEN << "policy_script_stop" >> ELSE << >>

\* the policy script is told that the session of a deleted connection ends
PolicyScriptStop(has_imv_db, has_state) ==
    IF has_imv_db /\ has_state THEN << "policy_script_stop" >> ELSE << >>

TNC_IMV_NotifyConnectionChange(new_state) ==
    /\ imv_os
    /\ op' = "NotifyConnectionChange"
    /\ sent' = << >>
    /\ UNCHANGED << imv_os, imv_db, os_db >>
    /\ UNCHANGED matching
    /\ CASE new_state = "CREATE" ->
              /\ connected' = TRUE
              /\ os_state' = imv_os_state_create
                        /\ verdicts' = 0
              /\ calls' = << >>
              /\ result' = "SUCCESS"
         [] new_state = "DELETE" ->
              /\ NoConnection
              /\ calls' = PolicyScriptStop(imv_db, connected)
              /\ result' = IF connected THEN "SUCCESS" ELSE "FATAL"
         [] OTHER ->
              /\ calls' = << >>
              /\ result' = IF connected THEN "SUCCESS" ELSE "FATAL"
              /\ UNCHANGED << connected, os_state, verdicts >>

\* TNC_IMV_ReceiveMessage and TNC_IMV_ReceiveMessageLong, which differ in
\* how the message is addressed only; in_msgs: what the peer may send
TNC_IMV_ReceiveMessage(in_msgs) ==
    /\ imv_os /\ connected
    /\ verdicts < MaxVerdicts
    /\ \E in_msg \in in_msgs :
       \E r \in { receive_message(os_state, in_msg, imv_db, os_db) } :
          /\ r.st.angel_count <= MaxAngel
          /\ r.st.count <= MaxCount \/ r.st.count = os_state.count
          /\ os_state' = r.st
          /\ op' = "ReceiveMessage"
          /\ calls' = r.calls
          /\ sent' = IF "send_excl" \in {r.calls[i] : i \in DOMAIN r.calls}
                     THEN << OutMsg(TRUE, << >>) >> ELSE << >>
          /\ result' = r.result
          /\ verdicts' = IF IsVerdict(r.calls) THEN verdicts + 1 ELSE verdicts
          /\ UNCHANGED << imv_os, imv_db, os_db, connected >>
          /\ UNCHANGED matching

TNC_IMV_SolicitRecommendation ==
    /\ imv_os /\ connected
    /\ op' = "SolicitRecommendation"
    /\ calls' = << "provide_recommendation" >>
    /\ sent' = << >>
    /\ result' = "SUCCESS"
    /\ UNCHANGED << imv_os, imv_db, os_db, connected, os_state, verdicts >>
    /\ UNCHANGED matching

TNC_IMV_BatchEnding ==
    /\ imv_os /\ connected
    /\ verdicts < MaxVerdicts
    /\ \E fail \in {"none", "send", "send_excl", "send_assessment"} :
       \E r \in { batch_ending(os_state, imv_db, fail) } :
          /\ os_state' = r.st
          /\ op' = "BatchEnding"
          /\ calls' = r.calls
          /\ sent' = r.sent
          /\ result' = r.result
          /\ verdicts' = IF IsVerdict(r.calls) THEN verdicts + 1 ELSE verdicts
          /\ UNCHANGED << imv_os, imv_db, os_db, connected >>
          /\ UNCHANGED matching

TNC_IMV_Terminate ==
    /\ imv_os
    /\ imv_os' = FALSE
    /\ imv_db' = FALSE
    /\ os_db' = FALSE
    /\ NoConnection
    /\ op' = "Terminate"
    /\ UNCHANGED matching
    /\ calls' = << >>
    /\ sent' = << >>
    /\ result' = "SUCCESS"

(***************************************************************************)
(* Specifications                                                          *)
(***************************************************************************)
\* one connection's handshake with a peer that sends in_msgs, from the
\* verifier's initialization on
Handshake(in_msgs) ==
    \/ TNC_IMV_Initialize
    \/ NotInitialized
    \/ NoState
    \/ \E new_state \in {"CREATE", "DELETE"} :
          TNC_IMV_NotifyConnectionChange(new_state)
    \/ TNC_IMV_ReceiveMessage(in_msgs)
    \/ TNC_IMV_BatchEnding
    \/ TNC_IMV_Terminate

\* the attributes of the handshake: identity, device, angels, packages
HandshakeAttrs ==
    { ProductInfo("Linux"), StringVersion("3.2"), DeviceId("d1"),
      StartAngel, StopAngel, InstalledPackages("ok") }

Next == Handshake(InMsgs(HandshakeAttrs))

Spec == Init /\ [][Next]_vars

\* the attributes of the operating system's identity, with and without text
IdentityAttrs ==
    { ProductInfo(""), ProductInfo("Linux"), ProductInfo("Android"),
      StringVersion(""), StringVersion("3.2") }

NextIdentity == Handshake(InMsgs(IdentityAttrs))

SpecIdentity == Init /\ [][NextIdentity]_vars

\* a session record with the given attributes received, as messages before
\* the first batch ending leave it
Received(received) == [imv_os_state_create EXCEPT !.received = received]

\* the first batch ending of a connection, for every set of attributes
\* received before it
InitRequest ==
    /\ imv_os = TRUE
    /\ imv_db \in BOOLEAN
    /\ os_db = imv_db
    /\ connected = TRUE
    /\ os_state \in { Received(received) : received \in SUBSET IMV_OS_ATTR_ALL }
    /\ op = "ReceiveMessage"
    /\ calls = << "send_excl" >>
    /\ sent = << OutMsg(TRUE, << >>) >>
    /\ result = "SUCCESS"
    /\ verdicts = 0
    /\ NoMatching

NextRequest == TNC_IMV_BatchEnding

SpecRequest == InitRequest /\ [][NextRequest]_vars

\* the OS settings a session has, and the attributes they came with
SettingsReceived(os_settings) ==
    { IMV_OS_ATTR_PRODUCT_INFORMATION, IMV_OS_ATTR_STRING_VERSION }
    \cup (IF "OS_SETTINGS_FWD_ENABLED" \in os_settings
          THEN { IMV_OS_ATTR_FORWARDING_ENABLED } ELSE {})
    \cup (IF "OS_SETTINGS_DEFAULT_PWD_ENABLED" \in os_settings
          THEN { IMV_OS_ATTR_FACTORY_DEFAULT_PWD_ENABLED } ELSE {})

\* a session record after the policy has started, with the given package
\* counters and OS settings
Measured(update, blacklist, ok, unknown, os_settings, angel_count) ==
    [ handshake_state |-> IMV_OS_STATE_POLICY_START,
      received |-> SettingsReceived(os_settings),
      os_settings |-> os_settings,
      info |-> << "Linux", "3.2" >>,
      device_id |-> "",
      angel_count |-> angel_count,
      count |-> update + blacklist + ok + unknown,
      count_update |-> update,
      count_blacklist |-> blacklist,
      count_ok |-> ok,
      rec |-> RecNone ]

OsSettings ==
    { "OS_SETTINGS_FWD_ENABLED", "OS_SETTINGS_DEFAULT_PWD_ENABLED",
      "OS_SETTINGS_NON_MARKET_APPS" }

\* the messages after the policy has started, for every value of the
\* package counters and of the OS settings
InitAssess ==
    /\ imv_os = TRUE
    /\ imv_db = TRUE
    /\ os_db = TRUE
    /\ connected = TRUE
    /\ os_state \in { Measured(u, b, k, n, os_settings, a) :
                        u \in 0..MaxCount, b \in 0..MaxCount, k \in 0..MaxCount,
                        n \in 0..MaxCount, os_settings \in SUBSET OsSettings,
                        a \in 0..1 }
    /\ op = "BatchEnding"
    /\ calls = << >>
    /\ sent = << >>
    /\ result = "SUCCESS"
    /\ verdicts = 0
    /\ NoMatching

AngelAttrs == { StartAngel, StopAngel }

NextAssess == TNC_IMV_ReceiveMessage(InMsgs(AngelAttrs))

SpecAssess == InitAssess /\ [][NextAssess]_vars

\* package inventories the database accepts and one it fails on, with the
\* attributes that lead a session to the start of the policy
PackageAttrs ==
    { ProductInfo("Linux"), StringVersion("3.2"), StartAngel,
      InstalledPackages("update"), InstalledPackages("FAILED") }

NextPackages == Handshake(InMsgs(PackageAttrs))

SpecPackages == Init /\ [][NextPackages]_vars

\* attributes the verifier knows, for a session to get to every handshake
\* state with and without an angel, and the attributes it does not know
KnownAttrs == { ProductInfo("Linux"), StringVersion("3.2"), StartAngel }

NextUnknown == Handshake(InMsgs(KnownAttrs \cup UnknownAttrs))

SpecUnknown == Init /\ [][NextUnknown]_vars

\* the attributes that report OS settings, with every status, and settings
\* lists with the non-market apps switched on, off and not named
SettingsAttrs ==
    { ForwardingEnabled("OS_FWD_ENABLED"), ForwardingEnabled("OS_FWD_DISABLED"),
      DefaultPwdEnabled("TRUE"), DefaultPwdEnabled("FALSE"),
      OperationalStatus,
      Settings(<< << non_market_apps_str, "1" >> >>),
      Settings(<< << non_market_apps_str, "0" >> >>),
      Settings(<< << "android_id", "1" >>, << non_market_apps_str, "11" >> >>) }

NextSettings == Handshake(InMsgs(SettingsAttrs))

SpecSettings == Init /\ [][NextSettings]_vars

\* the verifier's lifecycle: every entry point, TNC_IMV_Initialize called
\* again included, with a peer that starts angels
NextLifecycle ==
    \/ Handshake(InMsgs({ StartAngel }))
    \/ AlreadyInitialized
    \/ TNC_IMV_SolicitRecommendation

SpecLifecycle == Init /\ [][NextLifecycle]_vars

\* a plugin loader asks whether the feature a is met by the feature b
InitMatches ==
    /\ imv_os = FALSE
    /\ imv_db = FALSE
    /\ os_db = FALSE
    /\ connected = FALSE
    /\ os_state = imv_os_state_create
    /\ op = ""
    /\ calls = << >>
    /\ sent = << >>
    /\ result = "SUCCESS"
    /\ verdicts = 0
    /\ feature_a \in Features
    /\ feature_b \in Features
    /\ matches = FALSE

NextMatches ==
    /\ op = ""
    /\ op' = "plugin_feature_matches"
    /\ matches' = plugin_feature_matches(feature_a, feature_b)
    /\ UNCHANGED << imv_os, imv_db, os_db, connected, os_state, calls, sent,
                    result, verdicts, feature_a, feature_b >>

SpecMatches == InitMatches /\ [][NextMatches]_vars

(***************************************************************************)
(* Properties                                                              *)
(***************************************************************************)
Called(cs, c) == \E i \in DOMAIN cs : cs[i] = c

\* a step of the named entry point on the connection's state
StepOf(name) == imv_os /\ connected /\ op' = name

IdentityReceived(received) ==
    /\ IMV_OS_ATTR_PRODUCT_INFORMATION \in received
    /\ IMV_OS_ATTR_STRING_VERSION \in received

\* C1: between the creation and the deletion of a connection an assessment
\* (send_assessment followed by provide_recommendation) is delivered at most
\* once, whatever messages and batch endings arrive.
C1_AtMostOneVerdict == verdicts <= 1

\* C2: once an assessment has been delivered for a connection, no later
\* message or batch ending of that connection changes the stored
\* recommendation.
C2_VerdictIsTerminal ==
    [][(verdicts >= 1 /\ verdicts' >= verdicts)
           => os_state'.rec = os_state.rec]_vars

\* C3: a batch ending in state INIT that finds Product Information or String
\* Version missing and sends its request leaves the session in ATTR_REQ
\* without an assessment; the next batch ending (the session is in ATTR_REQ)
\* sets the recommendation (NO_RECOMMENDATION, ERROR) and sends the
\* assessment if the two are still not both received, and otherwise starts
\* the policy without touching the recommendation.
C3_ForgivenessWindow ==
    [][StepOf("BatchEnding") =>
          LET hs == os_state.handshake_state
              both == IdentityReceived(os_state.received)
          IN /\ (hs = IMV_OS_STATE_INIT /\ ~both /\ result' = "SUCCESS")
                   => /\ os_state'.handshake_state = IMV_OS_STATE_ATTR_REQ
                      /\ calls' = << "send" >>
                      /\ os_state'.rec = os_state.rec
             /\ (hs = IMV_OS_STATE_ATTR_REQ /\ ~both)
                   => /\ os_state'.rec = RecError
                      /\ os_state'.handshake_state = IMV_OS_STATE_ATTR_REQ
                      /\ Len(calls') >= 2
                      /\ SubSeq(calls', 1, 2) = << "set_recommendation", "send_assessment" >>
                      /\ (result' = "SUCCESS" <=> IsVerdict(calls'))
             /\ (hs = IMV_OS_STATE_ATTR_REQ /\ both)
                   => /\ os_state'.handshake_state = IMV_OS_STATE_POLICY_START
                      /\ os_state'.rec = os_state.rec
                      /\ ~Called(calls', "set_recommendation")
                      /\ ~Called(calls', "send_assessment")]_vars

\* the second batch ending of a connection whose peer withheld the identity
\* has delivered the error assessment
C3_Witness ==
    /\ op = "BatchEnding"
    /\ os_state.handshake_state = IMV_OS_STATE_ATTR_REQ
    /\ os_state.received = {}
    /\ os_state.rec = RecError
    /\ IsVerdict(calls)

\* the handler's outcome for a message, as TNC_IMV_ReceiveMessage computes it
Outcome(in_msg) == receive_message(os_state, in_msg, imv_db, os_db)

\* in_msg is parsed and what the handler sends is sent
Handled(in_msg) == in_msg.fail = "none"

\* the last entry point delivered the recommendation rec from a message
Delivered(rec) ==
    /\ connected
    /\ op = "ReceiveMessage"
    /\ IsVerdict(calls)
    /\ os_state.rec = rec

\* C4: in POLICY_START with an angel running, a message without fatal error
\* sends no assessment while the angel count stays above 0, the message that
\* brings the count to 0 delivers (ALLOW, COMPLIANT) when the counters and the
\* settings are clean, and that assessment is delivered once: no later
\* message delivers (ALLOW, COMPLIANT) again.
C4_AngelGating ==
    [][/\ (/\ imv_os /\ connected
           /\ os_state.handshake_state = IMV_OS_STATE_POLICY_START
           /\ os_state.angel_count >= 1)
          => \A in_msg \in InMsgs(HandshakeAttrs) :
                (Handled(in_msg) /\ ~in_msg.fatal_error) =>
                \A r \in { Outcome(in_msg) } :
                   /\ r.st.angel_count > 0 => ~Called(r.calls, "send_assessment")
                   /\ (/\ r.st.angel_count = 0
                       /\ r.st.count_update = 0 /\ r.st.count_blacklist = 0
                       /\ r.st.os_settings = {})
                        => r.st.rec = RecAllow /\ IsVerdict(r.calls)
       /\ (Delivered(RecAllow) /\ verdicts' > verdicts)
             => ~(op' = "ReceiveMessage" /\ os_state'.rec = RecAllow)]_vars

\* the Product Information (String Version) attributes of a message
AttrsOfType(attrs, type) ==
    SelectSeq(attrs, LAMBDA a : a.vid = PEN_IETF /\ a.type = type)

\* C5: a message with Product Information but no String Version, or the
\* reverse, leaves the OS information of the session as it is and calls no
\* add_product, whatever was received before; a message carrying both, each
\* with text, sets the OS information to that name and version.
C5_JointIdentity ==
    (imv_os /\ connected) =>
    \A in_msg \in InMsgs(IdentityAttrs) :
       in_msg.fail # "receive" =>
       \A r \in { Outcome(in_msg) } :
          LET names == AttrsOfType(in_msg.attrs, "IETF_ATTR_PRODUCT_INFORMATION")
              versions == AttrsOfType(in_msg.attrs, "IETF_ATTR_STRING_VERSION")
          IN /\ (names = << >> \/ versions = << >>)
                   => /\ r.st.info = os_state.info
                      /\ ~Called(r.calls, "add_product")
             /\ (/\ names # << >> /\ versions # << >>
                 /\ \A i \in DOMAIN names : names[i].val # ""
                 /\ \A i \in DOMAIN versions : versions[i].val # "")
                   => /\ r.st.info = << names[Len(names)].val,
                                        versions[Len(versions)].val >>
                      /\ imv_db => Called(r.calls, "add_product")

\* a message has set the OS information of a session that had another one
C5_Witness ==
    /\ connected
    /\ op = "ReceiveMessage"
    /\ os_state.info = << "Android", "3.2" >>
    /\ Called(calls, "add_product")

\* C6: when the assessment runs after a message (the device information is
\* stored), the recommendation is (ISOLATE, NONCOMPLIANT_MINOR) if and only
\* if packages need an update, packages are blacklisted or an OS setting is
\* flagged, and (ALLOW, COMPLIANT) otherwise; the numbers of packages in all
\* and of packages in order have no influence.
C6_Compliance ==
    (op = "ReceiveMessage" /\ Called(calls, "set_device_info")) =>
       os_state.rec = IF \/ os_state.count_update > 0
                         \/ os_state.count_blacklist > 0
                         \/ os_state.os_settings # {}
                      THEN RecIsolate
                      ELSE RecAllow

\* packages all in order, the factory default password enabled: isolated
C6_Witness ==
    /\ op = "ReceiveMessage"
    /\ Called(calls, "set_device_info")
    /\ os_state.count_ok > 0
    /\ os_state.count = os_state.count_ok
    /\ os_state.os_settings = { "OS_SETTINGS_DEFAULT_PWD_ENABLED" }
    /\ os_state.rec = RecIsolate

\* C7: a batch ending in POLICY_START calls nothing (no policy script, no
\* request for attributes or packages) and leaves the session as it is.
C7_IdempotentReentry ==
    [][(StepOf("BatchEnding") /\
        os_state.handshake_state = IMV_OS_STATE_POLICY_START)
          => /\ os_state' = os_state
             /\ calls' = << >>
             /\ sent' = << >>
             /\ result' = "SUCCESS"
             /\ verdicts' = verdicts]_vars

\* a batch ending has found the policy started
C7_Witness ==
    /\ connected
    /\ op = "BatchEnding"
    /\ os_state.handshake_state = IMV_OS_STATE_POLICY_START
    /\ calls = << >>

\* the attributes a request may ask for, in the order of the request
RequestOrder ==
    << << IMV_OS_ATTR_PRODUCT_INFORMATION, PEN_IETF, "IETF_ATTR_PRODUCT_INFORMATION" >>,
       << IMV_OS_ATTR_STRING_VERSION, PEN_IETF, "IETF_ATTR_STRING_VERSION" >>,
       << IMV_OS_ATTR_NUMERIC_VERSION, PEN_IETF, "IETF_ATTR_NUMERIC_VERSION" >>,
       << IMV_OS_ATTR_OPERATIONAL_STATUS, PEN_IETF, "IETF_ATTR_OPERATIONAL_STATUS" >>,
       << IMV_OS_ATTR_FORWARDING_ENABLED, PEN_IETF, "IETF_ATTR_FORWARDING_ENABLED" >>,
       << IMV_OS_ATTR_FACTORY_DEFAULT_PWD_ENABLED, PEN_IETF,
          "IETF_ATTR_FACTORY_DEFAULT_PWD_ENABLED" >>,
       << IMV_OS_ATTR_DEVICE_ID, PEN_ITA, "ITA_ATTR_DEVICE_ID" >> >>

\* the request the claim describes for the attributes received
RequestFor(received) ==
    LET wanted(e) ==
            IF e[1] \in { IMV_OS_ATTR_PRODUCT_INFORMATION, IMV_OS_ATTR_STRING_VERSION }
            THEN ~IdentityReceived(received)
            ELSE e[1] \notin received
        asked == SelectSeq(RequestOrder, wanted)
    IN [i \in DOMAIN asked |-> << asked[i][2], asked[i][3] >>]

\* C8: the request for missing attributes asks, in the fixed order, for
\* Product Information and String Version together if and only if one of the
\* two is missing, and for each of the five other attributes if and only if
\* it is missing; it depends on the received attributes only.
C8_RequestBuilder ==
    (op = "BatchEnding" /\ Called(calls, "send")) =>
       sent[1] = OutMsg(FALSE, RequestFor(os_state.received))

\* only Product Information was received: all seven attributes are asked for
C8_Witness ==
    /\ op = "BatchEnding"
    /\ Called(calls, "send")
    /\ os_state.received = { IMV_OS_ATTR_PRODUCT_INFORMATION }
    /\ Len(sent[1].request) = 7

\* C9: the handshake state of a session starts at INIT, moves forward only
\* (INIT, ATTR_REQ, POLICY_START, with INIT to POLICY_START the one skip),
\* never leaves POLICY_START, and is not changed by a message.
C9_PhaseMonotonic ==
    [][/\ (~connected /\ connected')
             => os_state'.handshake_state = IMV_OS_STATE_INIT
       /\ (connected /\ connected' /\ op' \in {"ReceiveMessage", "BatchEnding"})
             => /\ HandshakeOrd(os_state'.handshake_state)
                      >= HandshakeOrd(os_state.handshake_state)
                /\ os_state.handshake_state = IMV_OS_STATE_POLICY_START
                      => os_state'.handshake_state = IMV_OS_STATE_POLICY_START
                /\ op' = "ReceiveMessage"
                      => os_state'.handshake_state = os_state.handshake_state]_vars

\* a message received after the policy started by way of ATTR_REQ
C9_Witness ==
    /\ connected
    /\ op = "ReceiveMessage"
    /\ os_state.handshake_state = IMV_OS_STATE_POLICY_START
    /\ IMV_OS_ATTR_DEVICE_ID \notin os_state.received

\* what the attribute loop writes: the session record but the recommendation
Classified(st) == [st EXCEPT !.rec = RecNone]

\* C10 as claimed: a message with a fatal error leaves what the attribute
\* loop writes untouched and delivers (NO_RECOMMENDATION, ERROR) at once, in
\* every handshake state and for every angel count.
C10_FatalErrorSkipsAttributes ==
    (imv_os /\ connected) =>
    \A in_msg \in InMsgs(HandshakeAttrs) :
       (Handled(in_msg) /\ in_msg.fatal_error) =>
       \A r \in { Outcome(in_msg) } :
          /\ Classified(r.st) = Classified(os_state)
          /\ r.st.rec = RecError
          /\ IsVerdict(r.calls)

\* C10 as amended: the attributes of a message with a fatal error are
\* analyzed as those of any message, and (NO_RECOMMENDATION, ERROR) is set
\* and the assessment sent at once, without the device information being
\* stored, in every handshake state and for every angel count;
\* provide_recommendation follows unless sending the assessment fails.
C10_FatalErrorForcesError ==
    (imv_os /\ connected) =>
    \A in_msg \in InMsgs(HandshakeAttrs) :
       (in_msg.fail # "receive" /\ in_msg.fatal_error) =>
       \A r \in { Outcome(in_msg) },
          r0 \in { Outcome([in_msg EXCEPT !.fatal_error = FALSE]) } :
          /\ Classified(r.st) = Classified(r0.st)
          /\ r.st.rec = RecError
          /\ ~Called(r.calls, "set_device_info")
          /\ \E n \in DOMAIN r.calls :
                /\ r.calls[n] = "set_recommendation"
                /\ SubSeq(r.calls, n + 1, Len(r.calls)) =
                      IF in_msg.fail = "send"
                      THEN << "send_assessment" >>
                      ELSE << "send_assessment", "provide_recommendation" >>

\* the error assessment delivered from a message while an angel runs and
\* the policy has not started
C10_Witness ==
    /\ Delivered(RecError)
    /\ os_state.handshake_state = IMV_OS_STATE_ATTR_REQ
    /\ os_state.angel_count > 0
    /\ os_state.received # {}

\* how often c is called in cs
Count(cs, c) == Cardinality({ i \in DOMAIN cs : cs[i] = c })

\* the Installed Packages attributes of a message that check_packages fails on
FailedPackages(in_msg) ==
    SelectSeq(in_msg.attrs,
              LAMBDA a : a.vid = PEN_IETF /\ a.type = "IETF_ATTR_INSTALLED_PACKAGES"
                         /\ a.val = "FAILED")

\* C11: when check_packages fails for an Installed Packages attribute of a
\* message, that message's handling sets (NO_RECOMMENDATION, ERROR) and sends
\* the assessment, in every handshake state and for every angel count, and
\* the compliance computation is skipped: set_device_info is not called and
\* the recommendation is set for the failures (and a fatal error) only.
C11_PackageCheckFailure ==
    (imv_os /\ connected /\ os_db) =>
    \A in_msg \in InMsgs(PackageAttrs) :
       (in_msg.fail # "receive" /\ FailedPackages(in_msg) # << >>) =>
       \A r \in { Outcome(in_msg) } :
          /\ r.st.rec = RecError
          /\ Called(r.calls, "send_assessment")
          /\ Handled(in_msg) => IsVerdict(r.calls)
          /\ ~Called(r.calls, "set_device_info")
          /\ Count(r.calls, "set_recommendation") =
                Len(FailedPackages(in_msg)) + (IF in_msg.fatal_error THEN 1 ELSE 0)

\* the error delivered before the policy started and while an angel runs,
\* from a message that set the recommendation twice: check_packages failed
C11_Witness ==
    /\ Delivered(RecError)
    /\ os_db
    /\ calls = << "set_recommendation", "set_recommendation",
                  "send_assessment", "provide_recommendation" >>
    /\ os_state.handshake_state = IMV_OS_STATE_ATTR_REQ
    /\ os_state.angel_count > 0

\* the request for the installed packages, sent when the policy starts
PackagesRequest == OutMsg(TRUE, << << PEN_IETF, "IETF_ATTR_INSTALLED_PACKAGES" >> >>)

\* the step is a batch ending that brings the session to POLICY_START
EntersPolicyStart ==
    /\ StepOf("BatchEnding")
    /\ os_state.handshake_state # IMV_OS_STATE_POLICY_START
    /\ os_state'.handshake_state = IMV_OS_STATE_POLICY_START

\* the condition the claim gives for the entry to POLICY_START
EntryCondition ==
    /\ os_state.handshake_state \in { IMV_OS_STATE_INIT, IMV_OS_STATE_ATTR_REQ }
    /\ IMV_OS_ATTR_PRODUCT_INFORMATION \in os_state.received
    /\ IMV_OS_ATTR_STRING_VERSION \in os_state.received
    /\ \/ IMV_OS_ATTR_DEVICE_ID \in os_state.received
       \/ os_state.handshake_state = IMV_OS_STATE_ATTR_REQ

\* the step is a batch ending that returns the error of sending the
\* request for the missing attributes
RequestNotSent ==
    /\ StepOf("BatchEnding")
    /\ calls' = << "send" >>
    /\ result' = "FATAL"

\* C12 as claimed: a batch ending brings the session to POLICY_START if and
\* only if the handshake state is INIT or ATTR_REQ, Product Information and
\* String Version are received, and the device ID is received or the state
\* is ATTR_REQ; on that step the policy script is started and the request
\* for the installed packages is sent with the exclusive flag.
C12_PolicyStartEntry ==
    [][StepOf("BatchEnding") =>
         /\ EntersPolicyStart <=> EntryCondition
         /\ EntersPolicyStart =>
               /\ Called(calls', "policy_script_start")
               /\ calls'[Len(calls')] = "send_excl"
               /\ sent'[Len(sent')] = PackagesRequest]_vars

\* C12 as amended: the same, unless sending the request for the missing
\* attributes fails, which ends the batch ending with that error and the
\* handshake state unchanged; the policy script is started if and only if
\* the verifier has an IMV database.
C12_PolicyStartEntryIfSent ==
    [][StepOf("BatchEnding") =>
         /\ EntersPolicyStart <=> (EntryCondition /\ ~RequestNotSent)
         /\ RequestNotSent => os_state' = os_state
         /\ EntersPolicyStart =>
               /\ Called(calls', "policy_script_start") <=> imv_db
               /\ Count(calls', "policy_script_start") <= 1
               /\ calls'[Len(calls')] = "send_excl"
               /\ sent'[Len(sent')] = PackagesRequest]_vars

\* the second batch ending has started the policy without the device ID
C12_Witness ==
    /\ connected
    /\ op = "BatchEnding"
    /\ os_state.handshake_state = IMV_OS_STATE_POLICY_START
    /\ IMV_OS_ATTR_DEVICE_ID \notin os_state.received
    /\ calls = << "policy_script_start", "send_excl" >>
    /\ sent = << PackagesRequest >>

\* the step deletes the connection that has a state
DeletesConnection ==
    /\ imv_os /\ connected
    /\ op' = "NotifyConnectionChange"
    /\ ~connected'

\* C13 as claimed: the policy script is started exactly once when the
\* session enters POLICY_START, on that step, and by no other step; it is
\* stopped exactly once when the connection is deleted, and by no other step.
C13_PolicyTriggerCalls ==
    [][/\ Count(calls', "policy_script_start") =
             IF EntersPolicyStart THEN 1 ELSE 0
       /\ Count(calls', "policy_script_stop") =
             IF DeletesConnection THEN 1 ELSE 0]_vars

\* C13 as amended: the same for a verifier that has an IMV database; without
\* one the policy script is never called.
C13_PolicyTriggerCallsWithDatabase ==
    [][/\ Count(calls', "policy_script_start") =
             IF EntersPolicyStart /\ imv_db THEN 1 ELSE 0
       /\ Count(calls', "policy_script_stop") =
             IF DeletesConnection /\ imv_db THEN 1 ELSE 0]_vars

\* the first batch ending has sent its request and started the policy script
C13_Witness ==
    /\ connected /\ imv_db
    /\ op = "BatchEnding"
    /\ os_state.handshake_state = IMV_OS_STATE_POLICY_START
    /\ calls = << "send", "policy_script_start", "send_excl" >>

\* the step sends the request for the missing attributes, and the send succeeds
RequestEmitted ==
    /\ Called(calls', "send")
    /\ ~(calls' = << "send" >> /\ result' = "FATAL")

MsgsOf(attr) ==
    { InMsg(<< attr >>, fatal_error, fail) :
        fatal_error \in BOOLEAN, fail \in {"none", "send"} }

\* C15: the angel count is never negative; a start marker adds 1 to it, a
\* stop marker takes 1 from it when it is above 0 and leaves it at 0
\* otherwise.
C15_AngelCountNotNegative ==
    /\ os_state.angel_count >= 0
    /\ (imv_os /\ connected) =>
          /\ \A in_msg \in MsgsOf(StartAngel) :
                Outcome(in_msg).st.angel_count = os_state.angel_count + 1
          /\ \A in_msg \in MsgsOf(StopAngel) :
                Outcome(in_msg).st.angel_count =
                   IF os_state.angel_count > 0
                   THEN os_state.angel_count - 1
                   ELSE 0

\* an angel runs after the policy started: the message gets a plain reply
C15_Witness ==
    /\ connected
    /\ op = "ReceiveMessage"
    /\ os_state.angel_count = 1
    /\ os_state.handshake_state = IMV_OS_STATE_POLICY_START
    /\ calls = << "send_excl" >>

\* the message in_msg with the attribute attr put in after its first i
\* attributes
WithAttr(in_msg, i, attr) ==
    [in_msg EXCEPT !.attrs = SubSeq(@, 1, i) \o << attr >> \o SubSeq(@, i + 1, Len(@))]

\* C16: an attribute of an unknown vendor or type is ignored: a message of
\* such attributes only leaves what the attribute loop writes and the
\* handshake state as they are, returns no error and sets no error
\* recommendation, and such an attribute put into any message changes nothing
\* of what the message does.
C16_UnknownIgnored ==
    (imv_os /\ connected) =>
       /\ \A in_msg \in InMsgs(UnknownAttrs) :
             (Handled(in_msg) /\ ~in_msg.fatal_error) =>
             \A r \in { Outcome(in_msg) } :
                /\ Classified(r.st) = Classified(os_state)
                /\ r.result = "SUCCESS"
                /\ r.st.rec = RecError => os_state.rec = RecError
       /\ \A in_msg \in InMsgs(KnownAttrs), attr \in UnknownAttrs :
             in_msg.fail # "receive" =>
             \A i \in 0..Len(in_msg.attrs) :
                Outcome(WithAttr(in_msg, i, attr)) = Outcome(in_msg)

\* a message was handled and left a session with an error recommendation,
\* waiting for its attributes, as it was
C16_Witness ==
    /\ connected
    /\ op = "ReceiveMessage"
    /\ os_state.handshake_state = IMV_OS_STATE_ATTR_REQ
    /\ os_state.received = {}
    /\ os_state.angel_count = 0
    /\ os_state.rec = RecError
    /\ calls = << "send_excl" >>
    /\ result = "SUCCESS"

\* the attribute types with a flag in received, by the claim
KindOf ==
    [ IETF_ATTR_PRODUCT_INFORMATION |-> IMV_OS_ATTR_PRODUCT_INFORMATION,
      IETF_ATTR_STRING_VERSION |-> IMV_OS_ATTR_STRING_VERSION,
      IETF_ATTR_NUMERIC_VERSION |-> IMV_OS_ATTR_NUMERIC_VERSION,
      IETF_ATTR_OPERATIONAL_STATUS |-> IMV_OS_ATTR_OPERATIONAL_STATUS,
      IETF_ATTR_FORWARDING_ENABLED |-> IMV_OS_ATTR_FORWARDING_ENABLED,
      IETF_ATTR_FACTORY_DEFAULT_PWD_ENABLED |-> IMV_OS_ATTR_FACTORY_DEFAULT_PWD_ENABLED,
      ITA_ATTR_DEVICE_ID |-> IMV_OS_ATTR_DEVICE_ID ]

\* the flags the attributes attrs add to received, by the claim
KindsOf(attrs) ==
    { KindOf[attrs[i].type] :
        i \in { j \in DOMAIN attrs : attrs[j].type \in DOMAIN KindOf } }

\* the OS settings the attributes attrs add, by the claim
FlagsOf(attrs) ==
    { flag \in OsSettings :
        \E i \in DOMAIN attrs :
           \/ /\ flag = "OS_SETTINGS_FWD_ENABLED"
              /\ attrs[i].type = "IETF_ATTR_FORWARDING_ENABLED"
              /\ attrs[i].val = "OS_FWD_ENABLED"
           \/ /\ flag = "OS_SETTINGS_DEFAULT_PWD_ENABLED"
              /\ attrs[i].type = "IETF_ATTR_FACTORY_DEFAULT_PWD_ENABLED"
              /\ attrs[i].val = "TRUE"
           \/ /\ flag = "OS_SETTINGS_NON_MARKET_APPS"
              /\ attrs[i].type = "ITA_ATTR_SETTINGS"
              /\ \E k \in DOMAIN attrs[i].kv :
                    attrs[i].kv[k] = << non_market_apps_str, "1" >> }

\* C17: a batch ending leaves the received flags and the OS settings as
\* they are, and a message adds to the received flags those of its
\* attributes and nothing else, and to the OS settings the forwarding flag
\* for forwarding enabled, the password flag for the default password
\* enabled and the non-market apps flag for that setting with the value "1",
\* and nothing else; so within a session both only grow.
C17_MonotonicAccumulation ==
    (imv_os /\ connected) =>
       /\ \A fail \in {"none", "send", "send_excl", "send_assessment"} :
             \A r \in { batch_ending(os_state, imv_db, fail) } :
                /\ r.st.received = os_state.received
                /\ r.st.os_settings = os_state.os_settings
       /\ \A in_msg \in InMsgs(SettingsAttrs) :
             \A r \in { Outcome(in_msg) } :
                /\ os_state.received \subseteq r.st.received
                /\ os_state.os_settings \subseteq r.st.os_settings
                /\ in_msg.fail # "receive" =>
                      /\ r.st.received =
                            os_state.received \cup KindsOf(in_msg.attrs)
                      /\ r.st.os_settings =
                            os_state.os_settings \cup FlagsOf(in_msg.attrs)

\* forwarding and the non-market apps were found, the default password was
\* reported and is not enabled
C17_Witness ==
    /\ connected
    /\ op = "ReceiveMessage"
    /\ os_state.received = { IMV_OS_ATTR_FORWARDING_ENABLED,
                             IMV_OS_ATTR_FACTORY_DEFAULT_PWD_ENABLED }
    /\ os_state.os_settings = { "OS_SETTINGS_FWD_ENABLED",
                                "OS_SETTINGS_NON_MARKET_APPS" }

\* the recommendations of the compliance computation
Posture == { RecAllow, RecIsolate }

\* C18: no batch ending delivers (ALLOW, COMPLIANT) or (ISOLATE,
\* NONCOMPLIANT_MINOR), and a message delivers one of them only if, with its
\* attributes analyzed, the handshake state is POLICY_START and the angel
\* count 0; and a message without fatal error and without a failure of
\* check_packages that leaves the session, which has delivered no assessment
\* yet, in POLICY_START with the angel count 0 delivers one of them itself.
C18_PostureVerdictGate ==
    (imv_os /\ connected) =>
       /\ \A fail \in {"none", "send", "send_excl", "send_assessment"} :
             \A r \in { batch_ending(os_state, imv_db, fail) } :
                Called(r.calls, "send_assessment") => r.st.rec = RecError
       /\ \A in_msg \in InMsgs(PackageAttrs) :
             \A r \in { Outcome(in_msg) } :
                /\ (Called(r.calls, "send_assessment") /\ r.st.rec \in Posture)
                      => /\ r.st.handshake_state = IMV_OS_STATE_POLICY_START
                         /\ r.st.angel_count = 0
                /\ (/\ verdicts = 0
                    /\ Handled(in_msg) /\ ~in_msg.fatal_error
                    /\ os_db => FailedPackages(in_msg) = << >>
                    /\ r.st.handshake_state = IMV_OS_STATE_POLICY_START
                    /\ r.st.angel_count = 0)
                      => /\ IsVerdict(r.calls)
                         /\ r.st.rec \in Posture

\* the first assessment of a session isolates a peer with packages to update
C18_Witness ==
    /\ Delivered(RecIsolate)
    /\ verdicts = 1
    /\ os_state.count_update > 0
    /\ os_state.handshake_state = IMV_OS_STATE_POLICY_START
    /\ os_state.angel_count = 0

\* the step is a batch ending in INIT with attributes missing
RequestingStep ==
    /\ StepOf("BatchEnding")
    /\ os_state.handshake_state = IMV_OS_STATE_INIT
    /\ os_state.received # IMV_OS_ATTR_ALL

\* the step sends, first, a request that names every attribute missing
AsksForMissing ==
    /\ calls'[1] = "send"
    /\ ~sent'[1].excl
    /\ \A i \in DOMAIN RequestOrder :
          RequestOrder[i][1] \notin os_state.received
             => \E k \in DOMAIN sent'[1].request :
                   sent'[1].request[k] = << RequestOrder[i][2], RequestOrder[i][3] >>

\* C19 as claimed: a batch ending in INIT with attributes missing sends a
\* request that names every missing attribute, and the handshake state after
\* it is still INIT.
C19_InitRowKeepsInit ==
    [][RequestingStep =>
         /\ AsksForMissing
         /\ os_state'.handshake_state = IMV_OS_STATE_INIT]_vars

\* C19 as amended: a batch ending in INIT with attributes missing sends a
\* request that names every missing attribute and goes on in the same call:
\* the handshake state after it is POLICY_START if Product Information,
\* String Version and the device ID are received and ATTR_REQ otherwise; it
\* is still INIT only if sending the request fails.
C19_InitRowGoesOn ==
    [][RequestingStep =>
         /\ AsksForMissing
         /\ os_state'.handshake_state =
               IF RequestNotSent THEN IMV_OS_STATE_INIT
               ELSE IF { IMV_OS_ATTR_PRODUCT_INFORMATION, IMV_OS_ATTR_STRING_VERSION,
                         IMV_OS_ATTR_DEVICE_ID } \subseteq os_state.received
               THEN IMV_OS_STATE_POLICY_START
               ELSE IMV_OS_STATE_ATTR_REQ]_vars

\* the device ID came unasked: the six other attributes were asked for and
\* the session waits for them
C19_Witness ==
    /\ op = "BatchEnding"
    /\ os_state.received = { IMV_OS_ATTR_DEVICE_ID }
    /\ os_state.handshake_state = IMV_OS_STATE_ATTR_REQ
    /\ calls = << "send" >>
    /\ Len(sent[1].request) = 6

\* C20: a message or a batch ending that sends an assessment has set the
\* recommendation before, sends it once and, if the send succeeds, calls
\* provide_recommendation next and last; if the send fails it returns the
\* error without calling provide_recommendation, which nothing else calls.
C20_SubmissionOrder ==
    op \in {"ReceiveMessage", "BatchEnding"} =>
       /\ Count(calls, "send_assessment") <= 1
       /\ \A i \in DOMAIN calls :
             /\ calls[i] = "send_assessment"
                   => /\ \E j \in 1..(i - 1) : calls[j] = "set_recommendation"
                      /\ \A j \in (i + 1)..Len(calls) :
                            calls[j] # "set_recommendation"
                      /\ IF result = "SUCCESS"
                         THEN /\ Len(calls) = i + 1
                              /\ calls[i + 1] = "provide_recommendation"
                         ELSE Len(calls) = i
             /\ calls[i] = "provide_recommendation"
                   => /\ i > 1
                      /\ calls[i - 1] = "send_assessment"
                      /\ result = "SUCCESS"

\* sending the error assessment failed at a batch ending: the error is
\* returned and provide_recommendation not called
C20_Witness ==
    /\ connected
    /\ op = "BatchEnding"
    /\ calls = << "set_recommendation", "send_assessment" >>
    /\ result = "FATAL"
    /\ os_state.rec = RecError

\* C21: whenever the policy has started, the OS information of the session
\* is set: Product Information and String Version of one message, both with
\* text, were taken as the identity.
C21_IdentityBeforePolicy ==
    (connected /\ os_state.handshake_state = IMV_OS_STATE_POLICY_START)
       => os_state.info # << >>

\* the messages without an Installed Packages attribute
NoPackages(in_msg) ==
    \A i \in DOMAIN in_msg.attrs :
       in_msg.attrs[i].type # "IETF_ATTR_INSTALLED_PACKAGES"

\* C22: (ALLOW, COMPLIANT) is delivered only after an Installed Packages
\* attribute was handled since the request for the installed packages: right
\* after the batch ending that started the policy and sent that request, a
\* message without installed packages does not deliver (ALLOW, COMPLIANT).
C22_NoPrematureAllow ==
    (/\ imv_os /\ connected
     /\ op = "BatchEnding"
     /\ os_state.handshake_state = IMV_OS_STATE_POLICY_START
     /\ Called(calls, "send_excl"))
       => \A in_msg \in InMsgs(HandshakeAttrs) :
             NoPackages(in_msg) =>
             \A r \in { Outcome(in_msg) } :
                ~(IsVerdict(r.calls) /\ r.st.rec = RecAllow)

\* C23: while the verifier is not initialized every entry point but
\* TNC_IMV_Initialize returns NOT_INITIALIZED and changes nothing;
\* TNC_IMV_Initialize on an initialized verifier returns ALREADY_INITIALIZED
\* and changes nothing; and after a TNC_IMV_Initialize that does not return
\* SUCCESS the verifier is still not initialized.
C23_VerifierLifecycle ==
    [][/\ (~imv_os /\ op' # "Initialize")
             => /\ result' = "NOT_INITIALIZED"
                /\ UNCHANGED << imv_os, imv_db, os_db, connected, os_state >>
       /\ (imv_os /\ op' = "Initialize")
             => /\ result' = "ALREADY_INITIALIZED"
                /\ UNCHANGED << imv_os, imv_db, os_db, connected, os_state >>
       /\ (~imv_os /\ op' = "Initialize" /\ result' # "SUCCESS")
             => ~imv_os']_vars

\* the feature types whose match has a direction
OneDirectional == { "FEATURE_RNG", "FEATURE_DATABASE", "FEATURE_FETCHER" }

\* C24: plugin_feature_matches(a, b) is false if the types differ and if the
\* type is FEATURE_NONE; for equal types it is the equality of the arguments,
\* but an RNG matches if and only if the quality of a is at most that of b, a
\* database if and only if that of a is DB_ANY or that of b, a fetcher if and
\* only if that of a is NULL or that of b; so the match is symmetric for all
\* types but these three.
C24_FeatureMatches ==
    op = "plugin_feature_matches" =>
       /\ matches <=>
             /\ feature_a.type = feature_b.type
             /\ feature_a.type # "FEATURE_NONE"
             /\ CASE feature_a.type = "FEATURE_RNG" ->
                        feature_a.arg <= feature_b.arg
                  [] feature_a.type = "FEATURE_DATABASE" ->
                        feature_a.arg = DB_ANY \/ feature_a.arg = feature_b.arg
                  [] feature_a.type = "FEATURE_FETCHER" ->
                        feature_a.arg = NULL \/ feature_a.arg = feature_b.arg
                  [] OTHER -> feature_a.arg = feature_b.arg
       /\ feature_a.type \notin OneDirectional
             => matches = plugin_feature_matches(feature_b, feature_a)

\* a weak RNG asked for is met by a stronger one, and not the other way round
C24_Witness ==
    /\ op = "plugin_feature_matches"
    /\ feature_a = Feature("FEATURE_RNG", 0)
    /\ feature_b = Feature("FEATURE_RNG", 2)
    /\ matches
    /\ ~plugin_feature_matches(feature_b, feature_a)

====
